---- MODULE Spec2Model ----
(***************************************************************************)
(* A model of the RenderGraph compiler: the render graph (passes, typed    *)
(* resources, edges and the pass-level adjacency lists), the graph         *)
(* primitives (BFS, path existence, topological sort) and the compiler     *)
(* pipeline (culling, serial order, parallelism analysis, async pairing,   *)
(* resource aliasing, resource templates).                                 *)
(*                                                                         *)
(* Pointers are modelled by the ids they point to: a Pass* is the pass id, *)
(* a Resource* is the resource id, nullptr is the value of that name.      *)
(***************************************************************************)
EXTENDS Integers, Sequences, FiniteSets, TLC

\* ---------------------------------------------------------------------
\* Bounds of the model
\* ---------------------------------------------------------------------
MaxPasses == 4
MaxEdges == 3
MaxSize == 5
\* Bounds of the specification of the graph operations
GraphMaxPasses == 3
GraphMaxEdges == 2
GraphMaxCalls == 4
\* Bounds of the specification of the id source: threads and calls a thread
\* makes to each revision of IdSequence
MaxThreads == 2
MaxNextCalls == 2

\* ---------------------------------------------------------------------
\* Program constants
\* ---------------------------------------------------------------------
nullptr == -1
rgRootPassName == "Root"

rgPresentPass == "Present"
JunkPointer == -2

\* mVertices, mEdges: the RenderGraph; mLastId: IdSequence; output: what
\* compile returned; pc: where the program is; step: the statements of an
\* example builder passed so far; last: the last call of a graph operation,
\* its arguments, its return value and the graph before it.
VARIABLES mVertices, mEdges, mLastId, output, pc, step, last, threads, atomicLastId
vars == <<mVertices, mEdges, mLastId, output, pc, step, last, threads, atomicLastId>>

\* ---------------------------------------------------------------------
\* Generic helpers on sequences
\* ---------------------------------------------------------------------
Elems(s) == {s[i] : i \in DOMAIN s}

IndexOf(s, x) ==
    IF \E i \in DOMAIN s : s[i] = x
    THEN CHOOSE i \in DOMAIN s : s[i] = x /\ \A j \in 1..(i - 1) : s[j] # x
    ELSE 0

RemoveAt(s, i) == SubSeq(s, 1, i - 1) \o SubSeq(s, i + 1, Len(s))

SetMin(S) == CHOOSE x \in S : \A y \in S : x <= y
SetMax(S) == CHOOSE x \in S : \A y \in S : x >= y

\* ---------------------------------------------------------------------
\* Passes and resources
\* ---------------------------------------------------------------------
\* Resource{ id, name, type, access, flags.dontOptimize }
Resource(id, name, type, access, dontOptimize) ==
    [id |-> id, name |-> name, type |-> type, access |-> access,
     dontOptimize |-> dontOptimize]

\* The pass kinds handed to addPass: name, flags and declared resources,
\* as the Passes:: factories build them.
PassKinds ==
    { \* sentinelBeginPass
      [name |-> rgRootPassName, async |-> FALSE, neverCull |-> TRUE, sentinel |-> TRUE,
       deps |-> << <<"scene", "External", "None", FALSE>> >>],
      \* a raster pass: reads one image, writes one image
      [name |-> "Raster", async |-> FALSE, neverCull |-> FALSE, sentinel |-> FALSE,
       deps |-> << <<"in", "Image", "Read", FALSE>>, <<"out", "Image", "Write", FALSE>> >>],
      \* an async compute pass that is never culled
      [name |-> "Async", async |-> TRUE, neverCull |-> TRUE, sentinel |-> FALSE,
       deps |-> << <<"in", "Image", "Read", FALSE>>, <<"out", "Image", "Write", FALSE>> >>],
      \* a pass that writes a buffer, is never culled, and carries the root's
      \* name without being a sentinel
      [name |-> rgRootPassName, async |-> FALSE, neverCull |-> TRUE, sentinel |-> FALSE,
       deps |-> << <<"out", "Buffer", "Write", FALSE>> >>],
      \* a pass that writes an image flagged dontOptimize and is never culled
      [name |-> "Pinned", async |-> FALSE, neverCull |-> TRUE, sentinel |-> FALSE,
       deps |-> << <<"out", "Image", "Write", TRUE>> >>],
      \* sentinelPresentPass
      [name |-> "Present", async |-> FALSE, neverCull |-> TRUE, sentinel |-> TRUE,
       deps |-> << <<"presentImage", "Image", "Read", FALSE>> >>]
    }

\* A pass as built by a factory of namespace Passes: the pass id first, then
\* one id per declared resource, all drawn from IdSequence.
MakePass(kind, firstId) ==
    [mId |-> firstId,
     name |-> kind.name,
     flags |-> [async |-> kind.async, neverCull |-> kind.neverCull,
                sentinel |-> kind.sentinel],
     dependencies |-> [i \in DOMAIN kind.deps |->
                          Resource(firstId + i, kind.deps[i][1], kind.deps[i][2],
                                   kind.deps[i][3], kind.deps[i][4])],
     mIncomingEdges |-> <<>>,
     mOutgoingEdges |-> <<>>]

\* ---------------------------------------------------------------------
\* Render graph operations (values of a graph: [mVertices, mEdges])
\* ---------------------------------------------------------------------
Graph(vs, es) == [mVertices |-> vs, mEdges |-> es]

PassIds(g) == {g.mVertices[i].mId : i \in DOMAIN g.mVertices}

\* Position of the pass with the given id in mVertices, 0 when absent.
PassIndex(g, id) ==
    IF \E i \in DOMAIN g.mVertices : g.mVertices[i].mId = id
    THEN CHOOSE i \in DOMAIN g.mVertices :
            /\ g.mVertices[i].mId = id
            /\ \A j \in 1..(i - 1) : g.mVertices[j].mId # id
    ELSE 0

getPassById(g, id) == g.mVertices[PassIndex(g, id)]

\* Pass::getResource(name): the id of the first declared resource of that
\* name.  When none has the name the code dereferences the end iterator; junk
\* is what that read yields.
getResource(pass, resourceName, junk) ==
    LET hits == {i \in DOMAIN pass.dependencies :
                    pass.dependencies[i].name = resourceName}
    IN IF hits = {} THEN junk ELSE pass.dependencies[SetMin(hits)].id

\* The resource a Resource* points to.  A pointer that getResource made from
\* the end iterator points to no resource of the pass: what is read through
\* it is no declared resource (empty name, type Unknown).
ResourceById(pass, resId) ==
    LET hits == {i \in DOMAIN pass.dependencies : pass.dependencies[i].id = resId}
    IN IF hits = {} THEN Resource(resId, "", "Unknown", "None", FALSE)
       ELSE pass.dependencies[SetMin(hits)]

ResourceName(g, passId, resId) == ResourceById(getPassById(g, passId), resId).name

Edge(id, src, dst, pSrcRes, pDstRes) ==
    [id |-> id, src |-> src, dst |-> dst, pSrcRes |-> pSrcRes, pDstRes |-> pDstRes]

\* RenderGraph::deletePass: the edges at the pass and the pass are erased;
\* the adjacency lists of the other passes are left as they are.  erase_if
\* on mVertices destroys the pass when it moves the next kept element onto
\* it and reads pass->getId() again for every element after that one:
\* undefined when two or more passes follow the deleted one.
deletePass(g, passId) ==
    LET i == PassIndex(g, passId)
    IN IF i = 0 THEN [g |-> g, ok |-> FALSE, undefined |-> FALSE]
       ELSE [g |-> Graph(SelectSeq(g.mVertices, LAMBDA p : p.mId # passId),
                         SelectSeq(g.mEdges, LAMBDA edge :
                             ~(edge.src = passId \/ edge.dst = passId))),
             ok |-> TRUE,
             undefined |-> Len(g.mVertices) - i >= 2]

insertEdge_linkBeforeLookup(g, src, srcRes, dst, dstRes, newId, junk) ==
    LET si == PassIndex(g, src)
        di == PassIndex(g, dst)
        pSrcRes == getResource(g.mVertices[si], srcRes, junk)
        pDstRes == getResource(g.mVertices[di], dstRes, junk)
        linked == [g.mVertices EXCEPT
                      ![si].mOutgoingEdges = Append(@, dst),
                      ![di].mIncomingEdges = Append(@, src)]
    IN IF src = dst THEN [g |-> g, ok |-> FALSE]
       ELSE IF pSrcRes = nullptr \/ pDstRes = nullptr
            THEN [g |-> Graph(linked, g.mEdges), ok |-> FALSE]
       ELSE [g |-> Graph(linked,
                         Append(g.mEdges, Edge(newId, src, dst, pSrcRes, pDstRes))),
             ok |-> TRUE]

\* RenderGraph::insertEdge; newId is the value IdSequence::next() returns.
insertEdge(g, src, srcRes, dst, dstRes, newId, junk) ==
    LET si == PassIndex(g, src)
        di == PassIndex(g, dst)
        pSrcRes == getResource(g.mVertices[si], srcRes, junk)
        pDstRes == getResource(g.mVertices[di], dstRes, junk)
    IN IF src = dst THEN [g |-> g, ok |-> FALSE]
       ELSE IF pSrcRes = nullptr THEN [g |-> g, ok |-> FALSE]
       ELSE IF pDstRes = nullptr THEN [g |-> g, ok |-> FALSE]
       ELSE [g |-> Graph(
                      [g.mVertices EXCEPT
                         ![si].mOutgoingEdges = Append(@, dst),
                         ![di].mIncomingEdges = Append(@, src)],
                      Append(g.mEdges, Edge(newId, src, dst, pSrcRes, pDstRes))),
             ok |-> TRUE]

\* RenderGraph::deleteEdge(src, srcRes, dst, dstRes).  The second lookup is
\* made on src, as in the code.
deleteEdge(g, src, srcRes, dst, dstRes, junk) ==
    LET si == PassIndex(g, src)
        di == PassIndex(g, dst)
        pSrcRes == getResource(g.mVertices[si], srcRes, junk)
        pDstRes == getResource(g.mVertices[si], dstRes, junk)
        found == {i \in DOMAIN g.mEdges :
                     /\ g.mEdges[i].src = src /\ g.mEdges[i].dst = dst
                     /\ g.mEdges[i].pSrcRes = pSrcRes
                     /\ g.mEdges[i].pDstRes = pDstRes}
        b_find == IndexOf(g.mVertices[si].mOutgoingEdges, dst)
        a_find == IndexOf(g.mVertices[di].mIncomingEdges, src)
    IN IF src = dst THEN [g |-> g, ok |-> FALSE]
       ELSE IF pSrcRes = nullptr THEN [g |-> g, ok |-> FALSE]
       ELSE IF pDstRes = nullptr THEN [g |-> g, ok |-> FALSE]
       ELSE IF found = {} THEN [g |-> g, ok |-> FALSE]
       ELSE IF b_find = 0 THEN [g |-> g, ok |-> FALSE]
       ELSE IF a_find = 0 THEN [g |-> g, ok |-> FALSE]
       ELSE [g |-> Graph(
                      [g.mVertices EXCEPT
                         ![si].mOutgoingEdges = RemoveAt(@, b_find),
                         ![di].mIncomingEdges = RemoveAt(@, a_find)],
                      RemoveAt(g.mEdges, SetMin(found))),
             ok |-> TRUE]

\* The entries find_if reads in an adjacency list when it looks for id:
\* those up to the first hit, all of them when there is none.
EntriesRead(list, id) ==
    IF IndexOf(list, id) = 0 THEN Elems(list)
    ELSE {list[i] : i \in 1..IndexOf(list, id)}

\* deleteEdge reads v->mId through every adjacency entry it passes.  An
\* entry that deletePass left behind points to a destroyed pass: the read
\* is undefined.  TRUE when the call makes such a read.
deleteEdgeReadsRemoved(g, src, srcRes, dst, dstRes, junk) ==
    LET si == PassIndex(g, src)
        di == PassIndex(g, dst)
        pSrcRes == getResource(g.mVertices[si], srcRes, junk)
        pDstRes == getResource(g.mVertices[si], dstRes, junk)
        found == {i \in DOMAIN g.mEdges :
                     /\ g.mEdges[i].src = src /\ g.mEdges[i].dst = dst
                     /\ g.mEdges[i].pSrcRes = pSrcRes
                     /\ g.mEdges[i].pDstRes = pDstRes}
        outgoing == g.mVertices[si].mOutgoingEdges
        incoming == g.mVertices[di].mIncomingEdges
    IN /\ src # dst
       /\ pSrcRes # nullptr
       /\ pDstRes # nullptr
       /\ found # {}
       /\ \/ ~(EntriesRead(outgoing, dst) \subseteq PassIds(g))
          \/ /\ IndexOf(outgoing, dst) # 0
             /\ ~(EntriesRead(incoming, src) \subseteq PassIds(g))

\* RenderGraph::deleteEdge(const Edge&)
deleteEdgeByEdge(g, edge, junk) ==
    deleteEdge(g, edge.src, ResourceName(g, edge.src, edge.pSrcRes),
               edge.dst, ResourceName(g, edge.dst, edge.pDstRes), junk)

containsEdge(g, src, dst) ==
    \E i \in DOMAIN g.mEdges : g.mEdges[i].src = src /\ g.mEdges[i].dst = dst

containsAnyEdge(g, a, b) == containsEdge(g, a, b) \/ containsEdge(g, b, a)

\* ---------------------------------------------------------------------
\* Graph primitives
\* ---------------------------------------------------------------------
\* The inner loop of BFS::execute over current->mOutgoingEdges.
RECURSIVE BFS_visit(_, _, _)
BFS_visit(ws, Q, visited) ==
    IF ws = <<>> THEN [Q |-> Q, visited |-> visited]
    ELSE IF Head(ws) \notin visited
         THEN BFS_visit(Tail(ws), Append(Q, Head(ws)), visited \cup {Head(ws)})
         ELSE BFS_visit(Tail(ws), Q, visited)

\* The while loop of BFS::execute.
RECURSIVE BFS_loop(_, _, _)
BFS_loop(g, Q, visited) ==
    IF Q = <<>> THEN visited
    ELSE LET r == BFS_visit(getPassById(g, Head(Q)).mOutgoingEdges, Tail(Q), visited)
         IN BFS_loop(g, r.Q, r.visited)

\* BFS::execute(root): the ids visited from root along mOutgoingEdges.
BFS_execute(g, root) == BFS_loop(g, <<root>>, {root})

\* The inner loop of BFS::hasPath over current->mOutgoingEdges.
RECURSIVE hasPath_visit(_, _, _, _)
hasPath_visit(ws, dst, queue, visited) ==
    IF ws = <<>> THEN [found |-> FALSE, queue |-> queue, visited |-> visited]
    ELSE IF Head(ws) = dst
         THEN [found |-> TRUE, queue |-> queue, visited |-> visited]
         ELSE IF Head(ws) \notin visited
              THEN hasPath_visit(Tail(ws), dst, Append(queue, Head(ws)),
                                 visited \cup {Head(ws)})
              ELSE hasPath_visit(Tail(ws), dst, queue, visited)

\* The while loop of BFS::hasPath.
RECURSIVE hasPath_loop(_, _, _, _)
hasPath_loop(g, dst, queue, visited) ==
    IF queue = <<>> THEN FALSE
    ELSE LET r == hasPath_visit(getPassById(g, Head(queue)).mOutgoingEdges, dst,
                                Tail(queue), visited)
         IN IF r.found THEN TRUE ELSE hasPath_loop(g, dst, r.queue, r.visited)

\* A variant of hasPath that looks at the out-neighbours of src only.
hasPath_directOnly(g, src, dst) ==
    src = dst \/ dst \in Elems(getPassById(g, src).mOutgoingEdges)

\* BFS::hasPath(src, dst)
hasPath(g, src, dst) ==
    IF src = dst THEN TRUE ELSE hasPath_loop(g, dst, <<src>>, {dst})

\* std::map<int32_t,int32_t> with operator[]: an absent key reads as 0.
MapGet(m, k) == IF k \in DOMAIN m THEN m[k] ELSE 0
MapPut(m, k, v) == IF k \in DOMAIN m THEN [m EXCEPT ![k] = v] ELSE m @@ (k :> v)

\* The inner loop of TopologicalSort::execute over v->mOutgoingEdges.
RECURSIVE tsort_visit(_, _, _)
tsort_visit(ws, inDegrees, Q) ==
    IF ws = <<>> THEN [inDegrees |-> inDegrees, Q |-> Q]
    ELSE LET wId == Head(ws)
             d == MapGet(inDegrees, wId) - 1
         IN tsort_visit(Tail(ws), MapPut(inDegrees, wId, d),
                        IF d = 0 THEN Append(Q, wId) ELSE Q)

\* The while loop of TopologicalSort::execute.
RECURSIVE tsort_loop(_, _, _, _)
tsort_loop(g, inDegrees, Q, T) ==
    IF Q = <<>> THEN [inDegrees |-> inDegrees, T |-> T]
    ELSE LET r == tsort_visit(getPassById(g, Head(Q)).mOutgoingEdges, inDegrees, Tail(Q))
         IN tsort_loop(g, r.inDegrees, r.Q, Append(T, Head(Q)))

\* A variant of TopologicalSort::execute that seeds the queue with every
\* vertex instead of the vertices of in-degree 0.
TopologicalSort_execute_seedAll(g, vertices) ==
    LET inDegrees == [id \in Elems(vertices) |->
                         Len(getPassById(g, id).mIncomingEdges)]
        r == tsort_loop(g, inDegrees, vertices, <<>>)
    IN IF \E i \in DOMAIN vertices : MapGet(r.inDegrees, vertices[i]) # 0
       THEN [ok |-> FALSE, value |-> <<>>]
       ELSE [ok |-> TRUE, value |-> r.T]

\* TopologicalSort::execute(vertices): Kahn's algorithm; in-degrees are the
\* sizes of mIncomingEdges.
TopologicalSort_execute(g, vertices) ==
    LET inDegrees == [id \in Elems(vertices) |->
                         Len(getPassById(g, id).mIncomingEdges)]
        Q0 == SelectSeq(vertices, LAMBDA id : inDegrees[id] = 0)
        r == tsort_loop(g, inDegrees, Q0, <<>>)
    IN IF \E i \in DOMAIN vertices : MapGet(r.inDegrees, vertices[i]) # 0
       THEN [ok |-> FALSE, value |-> <<>>]
       ELSE [ok |-> TRUE, value |-> r.T]

\* std::set<Id_t> converted to std::vector<Id_t>: ascending ids.
RECURSIVE SortedSeq(_)
SortedSeq(S) ==
    IF S = {} THEN <<>> ELSE <<SetMin(S)>> \o SortedSeq(S \ {SetMin(S)})

\* The elements of s at the positions in J, in order of position.
Pick(s, J) ==
    LET f[k \in 0..Len(s)] ==
            IF k = 0 THEN <<>>
            ELSE IF k \in J THEN Append(f[k - 1], s[k]) ELSE f[k - 1]
    IN f[Len(s)]

\* ---------------------------------------------------------------------
\* Compiler: preamble and task scheduling
\* ---------------------------------------------------------------------
\* A variant of getRootNode that looks at the name only.
getRootNode_nameOnly(g) ==
    LET hits == {i \in DOMAIN g.mVertices : g.mVertices[i].name = rgRootPassName}
    IN IF hits = {} THEN [ok |-> FALSE, error |-> "NoRootNode", value |-> nullptr]
       ELSE [ok |-> TRUE, error |-> "None", value |-> g.mVertices[SetMin(hits)].mId]

\* RenderGraphCompiler::getRootNode: the first sentinel pass named "Root".
getRootNode(g) ==
    LET hits == {i \in DOMAIN g.mVertices :
                    g.mVertices[i].flags.sentinel /\ g.mVertices[i].name = rgRootPassName}
    IN IF hits = {} THEN [ok |-> FALSE, error |-> "NoRootNode", value |-> nullptr]
       ELSE [ok |-> TRUE, error |-> "None", value |-> g.mVertices[SetMin(hits)].mId]

\* A variant of cullNodes that keeps the reachable passes only.
cullNodes_reachableOnly(g) ==
    LET rootNode == getRootNode(g)
        reachableNodes == BFS_execute(g, rootNode.value)
    IN IF ~rootNode.ok THEN [ok |-> FALSE, error |-> rootNode.error, value |-> <<>>]
       ELSE [ok |-> TRUE, error |-> "None", value |-> SortedSeq(reachableNodes)]

\* RenderGraphCompiler::cullNodes
cullNodes(g) ==
    LET rootNode == getRootNode(g)
        remainingNodes == {g.mVertices[i].mId : i \in
                              {j \in DOMAIN g.mVertices : g.mVertices[j].flags.neverCull}}
        reachableNodes == BFS_execute(g, rootNode.value)
    IN IF ~rootNode.ok THEN [ok |-> FALSE, error |-> rootNode.error, value |-> <<>>]
       ELSE [ok |-> TRUE, error |-> "None",
             value |-> SortedSeq(remainingNodes \cup reachableNodes)]

\* A variant of getSerialExecutionOrder that does not look at the sort's
\* error and passes on what was sorted.
getSerialExecutionOrder_unchecked(g, nodeIds) ==
    LET inDegrees == [id \in Elems(nodeIds) |-> Len(getPassById(g, id).mIncomingEdges)]
        Q0 == SelectSeq(nodeIds, LAMBDA id : inDegrees[id] = 0)
    IN [ok |-> TRUE, error |-> "None", value |-> tsort_loop(g, inDegrees, Q0, <<>>).T]

\* RenderGraphCompiler::getSerialExecutionOrder
getSerialExecutionOrder(g, nodeIds) ==
    LET tsortResult == TopologicalSort_execute(g, nodeIds)
    IN IF ~tsortResult.ok
       THEN [ok |-> FALSE, error |-> "CyclicDependency", value |-> <<>>]
       ELSE [ok |-> TRUE, error |-> "None", value |-> tsortResult.value]

\* The filter of getParallelizableTasks that collects "duplicate" edges:
\* for each edge, the edges e with another id, the same source, and whose
\* source is the edge's destination.
DuplicateEdges(g) ==
    LET dupOf(edge) == SelectSeq(g.mEdges, LAMBDA e :
                           /\ edge.id # e.id
                           /\ edge.src = e.src
                           /\ edge.dst = e.src)
        f[k \in 0..Len(g.mEdges)] ==
            IF k = 0 THEN <<>> ELSE f[k - 1] \o dupOf(g.mEdges[k])
    IN f[Len(g.mEdges)]

\* RenderGraph::createCopy: passes copied with their ids and empty adjacency,
\* then every edge re-inserted by resource name; each insertion draws a new
\* id from IdSequence, starting at firstId.
createCopy(g, firstId, junk) ==
    LET g0 == Graph([i \in DOMAIN g.mVertices |->
                        [g.mVertices[i] EXCEPT !.mIncomingEdges = <<>>,
                                               !.mOutgoingEdges = <<>>]],
                    <<>>)
        f[k \in 0..Len(g.mEdges)] ==
            IF k = 0 THEN g0
            ELSE LET edge == g.mEdges[k]
                 IN insertEdge(f[k - 1], edge.src, ResourceName(g, edge.src, edge.pSrcRes),
                               edge.dst, ResourceName(g, edge.dst, edge.pDstRes),
                               firstId + k - 1, junk).g
    IN f[Len(g.mEdges)]

\* shadowGraph.deleteEdge(edge) with an edge of the input graph: edge.src and
\* edge.dst point to passes of the input graph, so the resources are looked
\* up there and the adjacency entries are erased there, while the edge is
\* searched for and erased in the mEdges of the shadow graph.
deleteEdgeOfOther(shadow, input, edge, junk) ==
    LET si == PassIndex(input, edge.src)
        di == PassIndex(input, edge.dst)
        pSrcRes == getResource(input.mVertices[si],
                               ResourceName(input, edge.src, edge.pSrcRes), junk)
        pDstRes == getResource(input.mVertices[si],
                               ResourceName(input, edge.dst, edge.pDstRes), junk)
        found == {i \in DOMAIN shadow.mEdges :
                     /\ shadow.mEdges[i].src = edge.src
                     /\ shadow.mEdges[i].dst = edge.dst
                     /\ shadow.mEdges[i].pSrcRes = pSrcRes
                     /\ shadow.mEdges[i].pDstRes = pDstRes}
        b_find == IndexOf(input.mVertices[si].mOutgoingEdges, edge.dst)
        a_find == IndexOf(input.mVertices[di].mIncomingEdges, edge.src)
    IN IF \/ edge.src = edge.dst
          \/ pSrcRes = nullptr
          \/ pDstRes = nullptr
          \/ found = {}
          \/ b_find = 0
          \/ a_find = 0
       THEN [shadow |-> shadow, input |-> input, ok |-> FALSE]
       ELSE [shadow |-> Graph(shadow.mVertices,
                              RemoveAt(shadow.mEdges, SetMin(found))),
             input |-> Graph([input.mVertices EXCEPT
                                 ![si].mOutgoingEdges = RemoveAt(@, b_find),
                                 ![di].mIncomingEdges = RemoveAt(@, a_find)],
                             input.mEdges),
             ok |-> TRUE]

\* The loop of getParallelizableTasks that deletes the duplicate edges, which
\* are copies of edges of the input graph.
RECURSIVE DeleteEdges(_, _, _, _)
DeleteEdges(shadow, input, edges, junk) ==
    IF edges = <<>> THEN [shadow |-> shadow, input |-> input]
    ELSE LET r == deleteEdgeOfOther(shadow, input, Head(edges), junk)
         IN DeleteEdges(r.shadow, r.input, Tail(edges), junk)

\* A variant of the double loop that inserts no edge.
PropagateDependencies_none(g, k, nextId, junk) == [g |-> g, nextId |-> nextId]

\* The double loop of getParallelizableTasks that inserts an edge node -> dst
\* whenever a path node ~> dst exists; k counts the (node, dst) pairs done and
\* nextId is the next value of IdSequence.
RECURSIVE PropagateDependencies(_, _, _, _)
PropagateDependencies(g, k, nextId, junk) ==
    LET n == Len(g.mVertices)
        node == g.mVertices[(k \div n) + 1]
        dst == g.mVertices[(k % n) + 1]
    IN IF k >= n * n THEN [g |-> g, nextId |-> nextId]
       ELSE IF node.mId # dst.mId /\ hasPath(g, node.mId, dst.mId)
            THEN LET r == insertEdge(g, node.mId, node.dependencies[1].name,
                                     dst.mId, dst.dependencies[1].name, nextId, junk)
                 IN PropagateDependencies(r.g, k + 1,
                                          IF r.ok THEN nextId + 1 ELSE nextId, junk)
            ELSE PropagateDependencies(g, k + 1, nextId, junk)

\* The shadow graph after the multi-edge removal step and before the
\* propagation loop: the copy of the graph with every edge of duplicateEdges
\* handed to deleteEdge.  Field shadow is the shadow graph, field input the
\* graph compile was given.
DeduplicatedShadow(g, firstId, junk) ==
    DeleteEdges(createCopy(g, firstId, junk), g, DuplicateEdges(g), junk)

\* A variant of the shadow graph that makes no copy: the closure is built on
\* the input graph itself.
ShadowGraph_onInput(g, firstId, junk) ==
    LET closed(p) == [g |-> p.g, nextId |-> p.nextId, input |-> p.g]
    IN closed(PropagateDependencies(g, 0, firstId, junk))

\* The shadow graph of getParallelizableTasks: copy, delete duplicates, close.
\* g is the shadow graph, input the graph of the compiler after these steps.
ShadowGraph(g, firstId, junk) ==
    LET closed(p, input) == [g |-> p.g, nextId |-> p.nextId, input |-> input]
        close(dedup) ==
            closed(PropagateDependencies(dedup.shadow, 0,
                                         firstId + Len(g.mEdges), junk),
                   dedup.input)
    IN close(DeduplicatedShadow(g, firstId, junk))

\* RenderGraphCompiler::getParallelizableTasks, nodeIds in serial order.
\* value is the map canRunInParallel after the empty entries were erased.
getParallelizableTasks(g, nodeIds, firstId, junk) ==
    LET erased(canRunInParallel, nextId, input) ==
            [ok |-> TRUE, error |-> "None",
             value |-> [id \in {k \in DOMAIN canRunInParallel :
                                    canRunInParallel[k] # <<>>}
                          |-> canRunInParallel[id]],
             nextId |-> nextId,
             input |-> input]
        scan(shadow) ==
            LET sentinel(id) == getPassById(shadow.g, id).flags.sentinel
                independentNodes(i) ==
                    Pick(nodeIds, {j \in DOMAIN nodeIds :
                                      ~(\/ nodeIds[i] = nodeIds[j]
                                        \/ sentinel(nodeIds[j])
                                        \/ i > j
                                        \/ containsAnyEdge(shadow.g, nodeIds[i],
                                                           nodeIds[j]))})
                keys == {nodeIds[i] : i \in {j \in DOMAIN nodeIds :
                                                ~sentinel(nodeIds[j])}}
            IN erased([id \in keys |-> independentNodes(IndexOf(nodeIds, id))],
                      shadow.nextId, shadow.input)
    IN scan(ShadowGraph(g, firstId, junk))

RGTask(pass, asyncPass) == [pass |-> pass, asyncPass |-> asyncPass]

\* A variant of the pairing loop that takes the first parallelizable pass
\* without asking for its async flag.
RECURSIVE ParallelTasks_anyPeer(_, _, _, _, _, _, _)
ParallelTasks_anyPeer(g, nodes, parallelizableTasks, chancesForParallelization, parallelTaskCount, nodesIncludedInTasks, tasks) ==
    IF nodes = <<>>
    THEN [tasks |-> tasks, parallelizableTasks |-> parallelizableTasks]
    ELSE
      LET node == Head(nodes)
          withKey == IF node \in DOMAIN parallelizableTasks
                     THEN parallelizableTasks
                     ELSE parallelizableTasks @@ (node :> <<>>)
          parallelizableNodes == withKey[node]
          selectedAsyncTask ==
              IF parallelizableNodes = <<>> THEN nullptr ELSE parallelizableNodes[1]
      IN IF node \in nodesIncludedInTasks
         THEN ParallelTasks_anyPeer(g, Tail(nodes), parallelizableTasks,
                            chancesForParallelization, parallelTaskCount,
                            nodesIncludedInTasks, tasks)
         ELSE IF node \notin DOMAIN parallelizableTasks
                 /\ chancesForParallelization <= parallelTaskCount
         THEN ParallelTasks_anyPeer(g, Tail(nodes), parallelizableTasks,
                            chancesForParallelization, parallelTaskCount,
                            nodesIncludedInTasks \cup {node},
                            Append(tasks, RGTask(node, nullptr)))
         ELSE ParallelTasks_anyPeer(g, Tail(nodes), withKey,
                            chancesForParallelization, parallelTaskCount + 1,
                            nodesIncludedInTasks \cup {node}
                              \cup (IF selectedAsyncTask # nullptr
                                    THEN {selectedAsyncTask} ELSE {}),
                            Append(tasks, RGTask(node, selectedAsyncTask)))

\* A variant of the pairing loop that does not record the selected async
\* pass in nodesIncludedInTasks.
RECURSIVE ParallelTasks_companionNotMarked(_, _, _, _, _, _, _)
ParallelTasks_companionNotMarked(g, nodes, parallelizableTasks, chancesForParallelization, parallelTaskCount, nodesIncludedInTasks, tasks) ==
    IF nodes = <<>>
    THEN [tasks |-> tasks, parallelizableTasks |-> parallelizableTasks]
    ELSE
      LET node == Head(nodes)
          withKey == IF node \in DOMAIN parallelizableTasks
                     THEN parallelizableTasks
                     ELSE parallelizableTasks @@ (node :> <<>>)
          parallelizableNodes ==
              SelectSeq(withKey[node], LAMBDA otherId : getPassById(g, otherId).flags.async)
          selectedAsyncTask ==
              IF parallelizableNodes = <<>> THEN nullptr ELSE parallelizableNodes[1]
      IN IF node \in nodesIncludedInTasks
         THEN ParallelTasks_companionNotMarked(g, Tail(nodes), parallelizableTasks,
                            chancesForParallelization, parallelTaskCount,
                            nodesIncludedInTasks, tasks)
         ELSE IF node \notin DOMAIN parallelizableTasks
                 /\ chancesForParallelization <= parallelTaskCount
         THEN ParallelTasks_companionNotMarked(g, Tail(nodes), parallelizableTasks,
                            chancesForParallelization, parallelTaskCount,
                            nodesIncludedInTasks \cup {node},
                            Append(tasks, RGTask(node, nullptr)))
         ELSE ParallelTasks_companionNotMarked(g, Tail(nodes), withKey,
                            chancesForParallelization, parallelTaskCount + 1,
                            nodesIncludedInTasks \cup {node},
                            Append(tasks, RGTask(node, selectedAsyncTask)))

\* The loop of getFinalTaskOrder that builds the tasks when parallelization
\* is allowed.  parallelizableTasks is passed by reference: operator[] on it
\* adds an empty entry for a key it does not hold.
RECURSIVE ParallelTasks(_, _, _, _, _, _, _)
ParallelTasks(g, nodes, parallelizableTasks, chancesForParallelization, parallelTaskCount, nodesIncludedInTasks, tasks) ==
    IF nodes = <<>>
    THEN [tasks |-> tasks, parallelizableTasks |-> parallelizableTasks]
    ELSE
      LET node == Head(nodes)
          withKey == IF node \in DOMAIN parallelizableTasks
                     THEN parallelizableTasks
                     ELSE parallelizableTasks @@ (node :> <<>>)
          parallelizableNodes ==
              SelectSeq(withKey[node], LAMBDA otherId : getPassById(g, otherId).flags.async)
          selectedAsyncTask ==
              IF parallelizableNodes = <<>> THEN nullptr ELSE parallelizableNodes[1]
      IN IF node \in nodesIncludedInTasks
         THEN ParallelTasks(g, Tail(nodes), parallelizableTasks,
                            chancesForParallelization, parallelTaskCount,
                            nodesIncludedInTasks, tasks)
         ELSE IF node \notin DOMAIN parallelizableTasks
                 /\ chancesForParallelization <= parallelTaskCount
         THEN ParallelTasks(g, Tail(nodes), parallelizableTasks,
                            chancesForParallelization, parallelTaskCount,
                            nodesIncludedInTasks \cup {node},
                            Append(tasks, RGTask(node, nullptr)))
         ELSE ParallelTasks(g, Tail(nodes), withKey,
                            chancesForParallelization, parallelTaskCount + 1,
                            nodesIncludedInTasks \cup {node}
                              \cup (IF selectedAsyncTask # nullptr
                                    THEN {selectedAsyncTask} ELSE {}),
                            Append(tasks, RGTask(node, selectedAsyncTask)))

\* A variant of getFinalTaskOrder that does not look at allowParallelization.
getFinalTaskOrder_optionIgnored(g, serialExecutionOrder, parallelizableTasks, allowParallelization) ==
    LET r == ParallelTasks(g, serialExecutionOrder, parallelizableTasks,
                           Cardinality(DOMAIN parallelizableTasks), 0, {}, <<>>)
    IN [ok |-> TRUE, error |-> "None", value |-> r.tasks,
        parallelizableTasks |-> r.parallelizableTasks]

\* RenderGraphCompiler::getFinalTaskOrder
getFinalTaskOrder(g, serialExecutionOrder, parallelizableTasks, allowParallelization) ==
    IF ~allowParallelization
    THEN [ok |-> TRUE, error |-> "None",
          value |-> [i \in DOMAIN serialExecutionOrder |->
                        RGTask(serialExecutionOrder[i], nullptr)],
          parallelizableTasks |-> parallelizableTasks]
    ELSE LET r == ParallelTasks(g, serialExecutionOrder, parallelizableTasks,
                                Cardinality(DOMAIN parallelizableTasks), 0, {}, <<>>)
         IN [ok |-> TRUE, error |-> "None", value |-> r.tasks,
             parallelizableTasks |-> r.parallelizableTasks]

\* ---------------------------------------------------------------------
\* Resource optimizer
\* ---------------------------------------------------------------------
\* isOptimizableResource
isOptimizableResource(resourceType) == resourceType = "Image"

\* The find_if over mTasks of evaluateRequiredResources: the 0-based index
\* of the first task that holds the node as main or async pass; the number
\* of tasks when none does (the end iterator).
TaskIndexOf(tasks, nodeId) ==
    LET hits == {i \in DOMAIN tasks :
                    \/ tasks[i].pass = nodeId
                    \/ (tasks[i].asyncPass # nullptr /\ tasks[i].asyncPass = nodeId)}
    IN IF hits = {} THEN Len(tasks) ELSE SetMin(hits) - 1

\* ResourceInfo::createFrom, with the consumers found by the second loop of
\* evaluateRequiredResources (edges in mEdges order).
ResourceInfo(g, tasks, node, resource) ==
    LET edges == SelectSeq(g.mEdges, LAMBDA edge :
                     ~(\/ node.mId # edge.src
                       \/ node.mId = edge.dst
                       \/ resource.id # edge.pSrcRes))
    IN [originNodeId |-> node.mId,
        originNodeIdx |-> TaskIndexOf(tasks, node.mId),
        originResourceId |-> resource.id,
        originAccess |-> resource.access,
        dontOptimize |-> resource.dontOptimize,
        type |-> resource.type,
        optimizable |-> isOptimizableResource(resource.type),
        consumers |-> [k \in DOMAIN edges |->
            [nodeId |-> edges[k].dst,
             nodeIdx |-> TaskIndexOf(tasks, edges[k].dst),
             resourceId |-> edges[k].pDstRes,
             access |-> ResourceById(getPassById(g, edges[k].dst), edges[k].pDstRes).access]]]

\* RenderGraphResourceOptimizer::evaluateRequiredResources: one ResourceInfo
\* per Write resource of every pass of the graph, in pass order.
evaluateRequiredResources(g, tasks) ==
    LET ofNode(node) ==
            LET ws == SelectSeq(node.dependencies, LAMBDA res : res.access = "Write")
            IN [k \in DOMAIN ws |-> ResourceInfo(g, tasks, node, ws[k])]
        f[i \in 0..Len(g.mVertices)] ==
            IF i = 0 THEN <<>> ELSE f[i - 1] \o ofNode(g.mVertices[i])
    IN f[Len(g.mVertices)]

\* evaluateRequiredResources reads it->pass with it the end iterator of
\* mTasks when a consumer's pass is in no task.
ConsumerNotInTasks(g, tasks) ==
    LET endIterator(R) ==
            \E i \in DOMAIN R : \E k \in DOMAIN R[i].consumers :
               R[i].consumers[k].nodeIdx = Len(tasks)
    IN endIterator(evaluateRequiredResources(g, tasks))

\* UsagePoint(const ResourceInfo&) and UsagePoint(const ConsumerInfo&).  The
\* field origin is not in the code: it records the resource whose
\* ResourceInfo the point was built from.
ProducerUsagePoint(resourceInfo) ==
    [point |-> resourceInfo.originNodeIdx,
     userResId |-> resourceInfo.originResourceId,
     userNodeId |-> resourceInfo.originNodeId,
     access |-> resourceInfo.originAccess,
     origin |-> resourceInfo.originResourceId]

ConsumerUsagePoint(consumerInfo, resourceInfo) ==
    [point |-> consumerInfo.nodeIdx,
     userResId |-> consumerInfo.resourceId,
     userNodeId |-> consumerInfo.nodeId,
     access |-> consumerInfo.access,
     origin |-> resourceInfo.originResourceId]

\* std::set<UsagePoint>::insert: operator< compares the point only, so a
\* point whose timeline index is already in the set is not inserted.
InsertPoint(points, p) ==
    IF \E q \in points : q.point = p.point THEN points ELSE points \cup {p}

\* getUsagePointsForResourceInfo
getUsagePointsForResourceInfo(resourceInfo) ==
    LET f[k \in 0..Len(resourceInfo.consumers)] ==
            IF k = 0 THEN InsertPoint({}, ProducerUsagePoint(resourceInfo))
            ELSE InsertPoint(f[k - 1],
                             ConsumerUsagePoint(resourceInfo.consumers[k], resourceInfo))
    IN f[Len(resourceInfo.consumers)]

\* Range(const std::set<UsagePoint>&)
Range(points) ==
    [start |-> SetMin({p.point : p \in points}),
     end |-> SetMax({p.point : p \in points})]

\* A variant of Range::overlaps that takes the larger of the two ends.
overlaps_largerEnd(a, b) ==
    (IF a.start >= b.start THEN a.start ELSE b.start)
        <= (IF a.end >= b.end THEN a.end ELSE b.end)

\* Range::overlaps
overlaps(a, b) ==
    (IF a.start >= b.start THEN a.start ELSE b.start)
        <= (IF a.end <= b.end THEN a.end ELSE b.end)

\* RGOptResource::insertUsagePoints: refused when a timeline index of points
\* is already used in the slot.
insertUsagePoints(timeline, points) ==
    IF \E p \in timeline.usagePoints : \E q \in points : p.point = q.point
    THEN [ok |-> FALSE, timeline |-> timeline]
    ELSE [ok |-> TRUE,
          timeline |-> [timeline EXCEPT !.usagePoints = @ \cup points]]

\* A variant of the first-fit loop that leaves out the range test and relies
\* on insertUsagePoints alone.
FirstFit_noRangeTest(generatedResources, usagePoints) ==
    LET fits == {i \in DOMAIN generatedResources :
                    insertUsagePoints(generatedResources[i], usagePoints).ok}
    IN IF fits = {} THEN 0 ELSE SetMin(fits)

\* The first-fit loop of run(): the index of the first generated resource
\* whose range does not overlap the incoming one and that accepts the
\* points; 0 when none does.
FirstFit(generatedResources, usagePoints) ==
    LET fits == {i \in DOMAIN generatedResources :
                    /\ ~overlaps(Range(generatedResources[i].usagePoints),
                                 Range(usagePoints))
                    /\ insertUsagePoints(generatedResources[i], usagePoints).ok}
    IN IF fits = {} THEN 0 ELSE SetMin(fits)

\* A variant of the loop body of run() without the final push_back for a
\* resource that no slot accepted.
PlaceResource_noFallback(generatedResources, res, newId) ==
    LET usagePoints == getUsagePointsForResourceInfo(res)
        resource == [id |-> newId,
                     usagePoints |-> usagePoints,
                     originalResource |-> res.originResourceId,
                     originalNode |-> res.originNodeId,
                     type |-> res.type]
        slot == FirstFit(generatedResources, usagePoints)
    IN IF ~res.optimizable \/ res.dontOptimize
       THEN Append(generatedResources, resource)
       ELSE IF generatedResources = <<>>
       THEN Append(generatedResources, resource)
       ELSE IF slot # 0
       THEN [generatedResources EXCEPT
                ![slot] = insertUsagePoints(@, usagePoints).timeline]
       ELSE generatedResources

\* One iteration of the loop of run() over R.
PlaceResource(generatedResources, res, newId) ==
    LET usagePoints == getUsagePointsForResourceInfo(res)
        resource == [id |-> newId,
                     usagePoints |-> usagePoints,
                     originalResource |-> res.originResourceId,
                     originalNode |-> res.originNodeId,
                     type |-> res.type]
        slot == FirstFit(generatedResources, usagePoints)
    IN IF ~res.optimizable \/ res.dontOptimize
       THEN Append(generatedResources, resource)
       ELSE IF generatedResources = <<>>
       THEN Append(generatedResources, resource)
       ELSE IF slot # 0
       THEN [generatedResources EXCEPT
                ![slot] = insertUsagePoints(@, usagePoints).timeline]
       ELSE Append(generatedResources, resource)

\* RenderGraphResourceOptimizer::run; every ResourceInfo draws one id.
run(g, tasks, firstId) ==
    LET result(R, generatedResources) ==
            [generatedResources |-> generatedResources,
             originalResources |-> [k \in DOMAIN R |-> R[k].originResourceId],
             nonOptimizables |->
                 Cardinality({k \in DOMAIN R :
                                 ~R[k].optimizable \/ R[k].dontOptimize}),
             reduction |-> Len(R) - Len(generatedResources),
             preCount |-> Len(R),
             postCount |-> Len(generatedResources),
             timelineRange |-> [start |-> 0, end |-> Len(g.mVertices)]]
        place(R) ==
            LET f[k \in 0..Len(R)] ==
                    IF k = 0 THEN <<>>
                    ELSE PlaceResource(f[k - 1], R[k], firstId + k - 1)
            IN result(R, f[Len(R)])
    IN place(evaluateRequiredResources(g, tasks))

\* The usage points of a slot in the iteration order of the std::set.
RECURSIVE PointsInOrder(_)
PointsInOrder(points) ==
    IF points = {} THEN <<>>
    ELSE LET first == CHOOSE p \in points : \A q \in points : p.point <= q.point
         IN <<first>> \o PointsInOrder(points \ {first})

\* A variant of getResourceTemplates with the two resource ids of a link
\* exchanged.
getResourceTemplates_swapped(g, optimizerOutput) ==
    [k \in DOMAIN optimizerOutput.generatedResources |->
        LET genRes == optimizerOutput.generatedResources[k]
            ordered == PointsInOrder(genRes.usagePoints)
        IN [id |-> genRes.id,
            type |-> genRes.type,
            links |-> [n \in DOMAIN ordered |->
                [srcPass |-> getPassById(g, genRes.originalNode).mId,
                 dstPass |-> ordered[n].userNodeId,
                 srcResource |-> ordered[n].userResId,
                 dstResource |-> genRes.originalResource,
                 access |-> ordered[n].access]]]]

\* RenderGraphCompiler::getResourceTemplates
getResourceTemplates(g, optimizerOutput) ==
    [k \in DOMAIN optimizerOutput.generatedResources |->
        LET genRes == optimizerOutput.generatedResources[k]
            ordered == PointsInOrder(genRes.usagePoints)
        IN [id |-> genRes.id,
            type |-> genRes.type,
            links |-> [n \in DOMAIN ordered |->
                [srcPass |-> getPassById(g, genRes.originalNode).mId,
                 dstPass |-> ordered[n].userNodeId,
                 srcResource |-> genRes.originalResource,
                 dstResource |-> ordered[n].userResId,
                 access |-> ordered[n].access]]]]

\* ---------------------------------------------------------------------
\* The compiler driver
\* ---------------------------------------------------------------------
\* A variant of createErrorOutput that stores the reason and leaves
\* hasFailed at its default.
createErrorOutput_flagUnset(error, options) ==
    [resourceTemplates |-> <<>>,
     hasFailed |-> FALSE,
     failReason |-> error,
     phaseOutputs |-> <<>>,
     options |-> [allowParallelization |-> FALSE]]

\* RenderGraphCompiler::createErrorOutput
createErrorOutput(error, options) ==
    [resourceTemplates |-> <<>>,
     hasFailed |-> TRUE,
     failReason |-> error,
     phaseOutputs |-> <<>>,
     options |-> [allowParallelization |-> FALSE]]

\* RenderGraphCompiler::compile.  phaseOutputs is the std::optional: the
\* empty sequence or a sequence of one record.  nextId is the value of
\* IdSequence after the call, graph the graph of the compiler after it.
compile(g, options, firstId, junk) ==
    LET optimized(cullNodesResult, serialExecutionOrderResult,
                  parallelizableTasksResult, finalTaskOrderResult,
                  resourceOptimizerResult) ==
            [output |->
                [resourceTemplates |->
                     getResourceTemplates(parallelizableTasksResult.input,
                                          resourceOptimizerResult),
                 hasFailed |-> FALSE,
                 failReason |-> "None",
                 phaseOutputs |-> <<
                    [cullNodes |-> cullNodesResult.value,
                     serialExecutionOrder |-> serialExecutionOrderResult.value,
                     parallelizableNodes |-> finalTaskOrderResult.parallelizableTasks,
                     taskOrder |-> finalTaskOrderResult.value,
                     resourceOptimizer |-> resourceOptimizerResult] >>,
                 options |-> options],
             nextId |-> parallelizableTasksResult.nextId
                           + resourceOptimizerResult.preCount,
             graph |-> parallelizableTasksResult.input,
             undefined |-> ConsumerNotInTasks(parallelizableTasksResult.input,
                                              finalTaskOrderResult.value)]
        ordered(cullNodesResult, serialExecutionOrderResult,
                parallelizableTasksResult, finalTaskOrderResult) ==
            optimized(cullNodesResult, serialExecutionOrderResult,
                      parallelizableTasksResult, finalTaskOrderResult,
                      run(parallelizableTasksResult.input,
                          finalTaskOrderResult.value,
                          parallelizableTasksResult.nextId))
        scanned(cullNodesResult, serialExecutionOrderResult,
                parallelizableTasksResult) ==
            ordered(cullNodesResult, serialExecutionOrderResult,
                    parallelizableTasksResult,
                    getFinalTaskOrder(parallelizableTasksResult.input,
                                      serialExecutionOrderResult.value,
                                      parallelizableTasksResult.value,
                                      options.allowParallelization))
        sorted(cullNodesResult, serialExecutionOrderResult) ==
            IF ~serialExecutionOrderResult.ok
            THEN [output |-> createErrorOutput(serialExecutionOrderResult.error, options),
                  nextId |-> firstId, graph |-> g, undefined |-> FALSE]
            ELSE scanned(cullNodesResult, serialExecutionOrderResult,
                         getParallelizableTasks(g, serialExecutionOrderResult.value,
                                                firstId, junk))
        culled(cullNodesResult) ==
            IF ~cullNodesResult.ok
            THEN [output |-> createErrorOutput(cullNodesResult.error, options),
                  nextId |-> firstId, graph |-> g, undefined |-> FALSE]
            ELSE sorted(cullNodesResult,
                        getSerialExecutionOrder(g, cullNodesResult.value))
    IN culled(cullNodes(g))

\* ---------------------------------------------------------------------
\* The state machine
\* ---------------------------------------------------------------------
IdThreads == 1..MaxThreads

G == Graph(mVertices, mEdges)

Init ==
    /\ mVertices = <<>>
    /\ mEdges = <<>>
    /\ mLastId = 0
    /\ output = <<>>
    /\ pc = "build"
    /\ step = 0
    /\ last = [op |-> "none"]
    /\ threads = [t \in IdThreads |->
                     [pc |-> "idle", loaded |-> 0, returned |-> <<>>, atomicReturned |-> <<>>]]
    /\ atomicLastId = 0

\* A Passes:: factory followed by RenderGraph::addPass.
AddPass(kind) ==
    /\ pc = "build"
    /\ Len(mVertices) < MaxPasses
    /\ Len(mVertices) + Len(mEdges) < MaxSize
    /\ mEdges = <<>>
    /\ mVertices' = Append(mVertices, MakePass(kind, mLastId))
    /\ mLastId' = mLastId + 1 + Len(kind.deps)
    /\ UNCHANGED <<mEdges, output, pc, step, last, threads, atomicLastId>>

\* RenderGraph::insertEdge on two passes of the graph and two resource names.
InsertEdge(src, srcRes, dst, dstRes) ==
    /\ pc = "build"
    /\ Len(mEdges) < MaxEdges
    /\ Len(mVertices) + Len(mEdges) < MaxSize
    /\ LET r == insertEdge(G, src, srcRes, dst, dstRes, mLastId, nullptr)
       IN /\ mVertices' = r.g.mVertices
          /\ mEdges' = r.g.mEdges
          /\ mLastId' = IF r.ok THEN mLastId + 1 ELSE mLastId
    /\ UNCHANGED <<output, pc, step, last, threads, atomicLastId>>

\* RenderGraphCompiler(graph, options).compile().  When the call has undefined
\* behaviour it may return what the code computes or not return at all.
Compile(allowParallelization) ==
    /\ pc = "build"
    /\ LET r == compile(G, [allowParallelization |-> allowParallelization],
                        mLastId, nullptr)
       IN /\ mLastId' = r.nextId
          /\ mVertices' = r.graph.mVertices
          /\ mEdges' = r.graph.mEdges
          /\ \/ /\ output' = <<r.output>>
                /\ pc' = "returned"
             \/ /\ r.undefined
                /\ output' = <<>>
                /\ pc' = "crashed"
    /\ UNCHANGED <<step, last, threads, atomicLastId>>

DeclaredNames(id) ==
    {getPassById(G, id).dependencies[i].name : i \in DOMAIN getPassById(G, id).dependencies}

Next ==
    \/ \E kind \in PassKinds : AddPass(kind)
    \/ \E src \in PassIds(G) : \E dst \in PassIds(G) :
          \E srcRes \in DeclaredNames(src) : \E dstRes \in DeclaredNames(dst) :
             InsertEdge(src, srcRes, dst, dstRes)
    \/ \E allowParallelization \in BOOLEAN : Compile(allowParallelization)

Spec == Init /\ [][Next]_vars

\* ---------------------------------------------------------------------
\* The example graph
\* ---------------------------------------------------------------------
\* The factories of namespace Passes that createExampleGraph calls.
sentinelBeginPass ==
    [name |-> rgRootPassName, async |-> FALSE, neverCull |-> TRUE, sentinel |-> TRUE,
     deps |-> << <<"scene", "External", "None", FALSE>> >>]

graphicsGBufferPass ==
    [name |-> "G-Buffer Pass", async |-> FALSE, neverCull |-> FALSE, sentinel |-> FALSE,
     deps |-> << <<"scene", "External", "None", FALSE>>,
                 <<"positionImage", "Image", "Write", FALSE>>,
                 <<"normalImage", "Image", "Write", FALSE>>,
                 <<"albedoImage", "Image", "Write", FALSE>>,
                 <<"motionVectors", "Image", "Write", FALSE>> >>]

graphicsLightingPass ==
    [name |-> "Lighting Pass", async |-> FALSE, neverCull |-> FALSE, sentinel |-> FALSE,
     deps |-> << <<"positionImage", "Image", "Read", FALSE>>,
                 <<"normalImage", "Image", "Read", FALSE>>,
                 <<"albedoImage", "Image", "Read", FALSE>>,
                 <<"lightingResult", "Image", "Write", FALSE>> >>]

computeAmbientOcclusion ==
    [name |-> "Ambient Occlusion Pass", async |-> TRUE, neverCull |-> FALSE,
     sentinel |-> FALSE,
     deps |-> << <<"positionImage", "Image", "Read", FALSE>>,
                 <<"normalImage", "Image", "Read", FALSE>>,
                 <<"ambientOcclusionImage", "Image", "Write", FALSE>> >>]

utilCompositionPass ==
    [name |-> "Composition Pass", async |-> FALSE, neverCull |-> FALSE, sentinel |-> FALSE,
     deps |-> << <<"imageA", "Image", "Read", FALSE>>,
                 <<"imageB", "Image", "Read", FALSE>>,
                 <<"combined", "Image", "Write", FALSE>> >>]

sentinelPresentPass ==
    [name |-> rgPresentPass, async |-> FALSE, neverCull |-> TRUE, sentinel |-> TRUE,
     deps |-> << <<"presentImage", "Image", "Read", FALSE>> >>]

\* The statements of createExampleGraph in order: six addPass calls, then
\* nine insertEdge calls (passes named by the factory's pass name).
addPassStatement(kind, optional) ==
    [op |-> "addPass", kind |-> kind, optional |-> optional]

insertEdgeStatement(src, srcRes, dst, dstRes) ==
    [op |-> "insertEdge", src |-> src.name, srcRes |-> srcRes,
     dst |-> dst.name, dstRes |-> dstRes, optional |-> TRUE]

createExampleGraph ==
    << addPassStatement(sentinelBeginPass, FALSE),
       addPassStatement(graphicsGBufferPass, FALSE),
       addPassStatement(graphicsLightingPass, FALSE),
       addPassStatement(computeAmbientOcclusion, TRUE),
       addPassStatement(utilCompositionPass, FALSE),
       addPassStatement(sentinelPresentPass, FALSE),
       insertEdgeStatement(sentinelBeginPass, "scene", graphicsGBufferPass, "scene"),
       insertEdgeStatement(graphicsGBufferPass, "positionImage",
                           graphicsLightingPass, "positionImage"),
       insertEdgeStatement(graphicsGBufferPass, "normalImage",
                           graphicsLightingPass, "normalImage"),
       insertEdgeStatement(graphicsGBufferPass, "albedoImage",
                           graphicsLightingPass, "albedoImage"),
       insertEdgeStatement(graphicsGBufferPass, "positionImage",
                           computeAmbientOcclusion, "positionImage"),
       insertEdgeStatement(graphicsGBufferPass, "normalImage",
                           computeAmbientOcclusion, "normalImage"),
       insertEdgeStatement(graphicsLightingPass, "lightingResult",
                           utilCompositionPass, "imageA"),
       insertEdgeStatement(computeAmbientOcclusion, "ambientOcclusionImage",
                           utilCompositionPass, "imageB"),
       insertEdgeStatement(utilCompositionPass, "combined",
                           sentinelPresentPass, "presentImage") >>

\* The pass a builder variable points to: the pass the factory of that name
\* made, nullptr when the statement that makes it was left out.
PassNamed(g, name) ==
    LET hits == {i \in DOMAIN g.mVertices : g.mVertices[i].name = name}
    IN IF hits = {} THEN nullptr ELSE g.mVertices[SetMin(hits)].mId

\* The next statement of createExampleGraph is executed.
ExampleStatement ==
    /\ pc = "build"
    /\ step < Len(createExampleGraph)
    /\ LET st == createExampleGraph[step + 1]
       IN IF st.op = "addPass"
          THEN /\ mVertices' = Append(mVertices, MakePass(st.kind, mLastId))
               /\ mLastId' = mLastId + 1 + Len(st.kind.deps)
               /\ UNCHANGED mEdges
          ELSE /\ PassNamed(G, st.src) # nullptr
               /\ PassNamed(G, st.dst) # nullptr
               /\ LET r == insertEdge(G, PassNamed(G, st.src), st.srcRes,
                                      PassNamed(G, st.dst), st.dstRes, mLastId, nullptr)
                  IN /\ mVertices' = r.g.mVertices
                     /\ mEdges' = r.g.mEdges
                     /\ mLastId' = IF r.ok THEN mLastId + 1 ELSE mLastId
    /\ step' = step + 1
    /\ UNCHANGED <<output, pc, last, threads, atomicLastId>>

\* A variation of the example leaves the next statement out: the linear
\* example leaves out the Ambient Occlusion pass and its three edges.
ExampleOmit ==
    /\ pc = "build"
    /\ step < Len(createExampleGraph)
    /\ createExampleGraph[step + 1].optional
    /\ step' = step + 1
    /\ UNCHANGED <<mVertices, mEdges, mLastId, output, pc, last, threads, atomicLastId>>

\* main(): the graph is compiled once the builder has returned.
CompileExample(allowParallelization) ==
    /\ step = Len(createExampleGraph)
    /\ Compile(allowParallelization)

NextExample ==
    \/ ExampleStatement
    \/ ExampleOmit
    \/ \E allowParallelization \in BOOLEAN : CompileExample(allowParallelization)

SpecExample == Init /\ [][NextExample]_vars

\* ---------------------------------------------------------------------
\* The operations of RenderGraph called in any order
\* ---------------------------------------------------------------------
\* The passes and resource names the calls are made with: the begin
\* sentinel (declares "scene") and a raster pass (declares "in" and "out"),
\* so that every name is absent from one of them.
GraphKinds == {kind \in PassKinds : kind.name = "Raster" \/ kind.sentinel}

GraphNames == {"scene", "in", "out"}

\* What &(*it) yields for the end iterator: a null pointer, or a pointer
\* that is not null and points to no declared resource.
JunkPointers == {nullptr, JunkPointer}

Call(op, src, srcRes, dst, dstRes, ret, copy) ==
    [op |-> op, src |-> src, srcRes |-> srcRes, dst |-> dst, dstRes |-> dstRes,
     ret |-> ret, before |-> G, copy |-> copy]

CallAddPass(kind) ==
    /\ pc = "build"
    /\ step < GraphMaxCalls
    /\ Len(mVertices) < GraphMaxPasses
    /\ mVertices' = Append(mVertices, MakePass(kind, mLastId))
    /\ mLastId' = mLastId + 1 + Len(kind.deps)
    /\ last' = Call("addPass", mLastId, "", nullptr, "", TRUE, Graph(<<>>, <<>>))
    /\ step' = step + 1
    /\ UNCHANGED <<mEdges, output, pc, threads, atomicLastId>>

\* step counts the calls made.  A lookup of a name the pass does not declare is undefined: the call goes
\* on with one of JunkPointers or does not return.
CallInsertEdge(src, srcRes, dst, dstRes, junk) ==
    /\ pc = "build"
    /\ step < GraphMaxCalls
    /\ Len(mEdges) < GraphMaxEdges
    /\ LET r == insertEdge(G, src, srcRes, dst, dstRes, mLastId, junk)
       IN \/ /\ mVertices' = r.g.mVertices
             /\ mEdges' = r.g.mEdges
             /\ mLastId' = IF r.ok THEN mLastId + 1 ELSE mLastId
             /\ last' = Call("insertEdge", src, srcRes, dst, dstRes, r.ok,
                             Graph(<<>>, <<>>))
             /\ step' = step + 1
             /\ UNCHANGED <<output, pc, threads, atomicLastId>>
          \/ /\ src # dst
             /\ \/ srcRes \notin DeclaredNames(src)
                \/ dstRes \notin DeclaredNames(dst)
             /\ pc' = "crashed"
             /\ UNCHANGED <<mVertices, mEdges, mLastId, output, step, last, threads, atomicLastId>>

CallDeleteEdge(src, srcRes, dst, dstRes, junk) ==
    /\ pc = "build"
    /\ step < GraphMaxCalls
    /\ LET r == deleteEdge(G, src, srcRes, dst, dstRes, junk)
       IN \/ /\ mVertices' = r.g.mVertices
             /\ mEdges' = r.g.mEdges
             /\ last' = Call("deleteEdge", src, srcRes, dst, dstRes, r.ok,
                             Graph(<<>>, <<>>))
             /\ step' = step + 1
             /\ UNCHANGED <<mLastId, output, pc, threads, atomicLastId>>
          \/ /\ \/ /\ src # dst
                   /\ \/ srcRes \notin DeclaredNames(src)
                      \/ dstRes \notin DeclaredNames(src)
                \/ deleteEdgeReadsRemoved(G, src, srcRes, dst, dstRes, junk)
             /\ pc' = "crashed"
             /\ UNCHANGED <<mVertices, mEdges, mLastId, output, step, last, threads, atomicLastId>>

CallDeletePass(passId) ==
    /\ pc = "build"
    /\ step < GraphMaxCalls
    /\ LET r == deletePass(G, passId)
       IN \/ /\ mVertices' = r.g.mVertices
             /\ mEdges' = r.g.mEdges
             /\ last' = Call("deletePass", passId, "", nullptr, "", r.ok,
                             Graph(<<>>, <<>>))
             /\ step' = step + 1
             /\ UNCHANGED <<mLastId, output, pc, threads, atomicLastId>>
          \/ /\ r.undefined
             /\ pc' = "crashed"
             /\ UNCHANGED <<mVertices, mEdges, mLastId, output, step, last, threads, atomicLastId>>

\* RenderGraph::createCopy(graph): the copy is kept in last.copy; every
\* edge of the graph draws one id from IdSequence.
CallCreateCopy(junk) ==
    /\ pc = "build"
    /\ step < GraphMaxCalls
    /\ last' = Call("createCopy", nullptr, "", nullptr, "", TRUE,
                    createCopy(G, mLastId, junk))
    /\ mLastId' = mLastId + Len(mEdges)
    /\ step' = step + 1
    /\ UNCHANGED <<mVertices, mEdges, output, pc, threads, atomicLastId>>

NextGraph ==
    \/ \E kind \in GraphKinds : CallAddPass(kind)
    \/ \E src \in PassIds(G) : \E dst \in PassIds(G) :
          \E srcRes \in GraphNames : \E dstRes \in GraphNames :
             \E junk \in JunkPointers :
                CallInsertEdge(src, srcRes, dst, dstRes, junk)
    \/ \E src \in PassIds(G) : \E dst \in PassIds(G) :
          \E srcRes \in GraphNames : \E dstRes \in GraphNames :
             \E junk \in JunkPointers :
                CallDeleteEdge(src, srcRes, dst, dstRes, junk)
    \/ \E passId \in PassIds(G) \cup {nullptr} : CallDeletePass(passId)
    \/ \E junk \in JunkPointers : CallCreateCopy(junk)

SpecGraph == Init /\ [][NextGraph]_vars

\* ---------------------------------------------------------------------
\* IdSequence::next() called from several threads
\* ---------------------------------------------------------------------
\* mLastId is the counter of the IdSequence the passes, resources and edges
\* draw from (int32_t, "return mLastId++"); atomicLastId is the counter of
\* the revision with std::atomic_int32_t.  threads[t].loaded is the value a
\* thread read in mLastId++ and has not yet written back.

\* IdSequence::nextId, "return mLastId++": the read of mLastId.  Nothing
\* orders it with the write of another thread.
NextIdLoad(t) ==
    /\ threads[t].pc = "idle"
    /\ Len(threads[t].returned) < MaxNextCalls
    /\ threads' = [threads EXCEPT ![t].pc = "loaded", ![t].loaded = mLastId]
    /\ UNCHANGED <<mVertices, mEdges, mLastId, output, pc, step, last, atomicLastId>>

\* IdSequence::nextId, "return mLastId++": the write of the incremented
\* value and the return of the value read.
NextIdStore(t) ==
    /\ threads[t].pc = "loaded"
    /\ mLastId' = threads[t].loaded + 1
    /\ threads' = [threads EXCEPT ![t].pc = "idle",
                                  ![t].returned = Append(@, threads[t].loaded)]
    /\ UNCHANGED <<mVertices, mEdges, output, pc, step, last, atomicLastId>>

\* IdSequence::nextId of the atomic revision: mLastId.fetch_add(1).
NextIdFetchAdd(t) ==
    /\ threads[t].pc = "idle"
    /\ Len(threads[t].atomicReturned) < MaxNextCalls
    /\ atomicLastId' = atomicLastId + 1
    /\ threads' = [threads EXCEPT ![t].atomicReturned = Append(@, atomicLastId)]
    /\ UNCHANGED <<mVertices, mEdges, mLastId, output, pc, step, last>>

NextIdSequence ==
    \/ \E t \in IdThreads : NextIdLoad(t)
    \/ \E t \in IdThreads : NextIdStore(t)
    \/ \E t \in IdThreads : NextIdFetchAdd(t)

SpecIdSequence == Init /\ [][NextIdSequence]_vars

\* ---------------------------------------------------------------------
\* Vocabulary of the properties
\* ---------------------------------------------------------------------
Returned == pc = "returned"
Out == output[1]
Succeeded == Returned /\ ~Out.hasFailed
PO == Out.phaseOutputs[1]
Tasks == PO.taskOrder

\* The out-neighbours of a pass, read from its adjacency list.
OutNeighbours(id) == Elems(getPassById(G, id).mOutgoingEdges)

\* The passes reachable from the passes of S along out-edges inside Within,
\* S included: a least fixed point, computed without a queue.
RECURSIVE ReachableFrom(_, _)
ReachableFrom(S, Within) ==
    LET T == S \cup {w \in Within : \E u \in S : w \in OutNeighbours(u)}
    IN IF T = S THEN S ELSE ReachableFrom(T, Within)

HasRoot ==
    \E i \in DOMAIN mVertices :
        mVertices[i].flags.sentinel /\ mVertices[i].name = rgRootPassName

RootId ==
    mVertices[SetMin({i \in DOMAIN mVertices :
        mVertices[i].flags.sentinel /\ mVertices[i].name = rgRootPassName})].mId

NeverCullIds ==
    {mVertices[i].mId : i \in {j \in DOMAIN mVertices : mVertices[j].flags.neverCull}}

\* The passes that survive culling, by definition.
Survivors == NeverCullIds \cup ReachableFrom({RootId}, PassIds(G))

\* The surviving passes lie on a directed cycle of surviving passes.
SurvivorsHaveCycle ==
    \E v \in Survivors :
        \E w \in OutNeighbours(v) \cap Survivors :
            v \in ReachableFrom({w}, Survivors)

NoDuplicates(s) == \A i, j \in DOMAIN s : i # j => s[i] # s[j]

\* Position of a pass in the serial order (0 when absent).
SerialPos(id) == IndexOf(PO.serialExecutionOrder, id)

\* All pass ids of the task order, main slots and async slots together.
TaskSlots ==
    LET f[k \in 0..Len(Tasks)] ==
            IF k = 0 THEN <<>>
            ELSE f[k - 1] \o <<Tasks[k].pass>>
                    \o (IF Tasks[k].asyncPass # nullptr
                        THEN <<Tasks[k].asyncPass>> ELSE <<>>)
    IN f[Len(Tasks)]

\* The Write resources of the graph, as [node, res] records.
WriteResources ==
    UNION {{[node |-> mVertices[i].mId, res |-> mVertices[i].dependencies[k]] :
               k \in {n \in DOMAIN mVertices[i].dependencies :
                         mVertices[i].dependencies[n].access = "Write"}} :
           i \in DOMAIN mVertices}

Slots == PO.resourceOptimizer.generatedResources

\* The original resources whose usage points were placed into a slot.
OriginsOf(slot) == {p.origin : p \in slot.usagePoints}

\* The live range of an original resource inside a slot.
LiveRange(slot, origin) == Range({p \in slot.usagePoints : p.origin = origin})

\* The slots that hold the producer usage point of a resource.
SlotsHolding(w) ==
    {k \in DOMAIN Slots :
        \E p \in Slots[k].usagePoints :
            /\ p.origin = w.res.id
            /\ p.userResId = w.res.id
            /\ p.userNodeId = w.node}

\* ---------------------------------------------------------------------
\* Properties
\* ---------------------------------------------------------------------

\* C1: in the task order of every successful compile every data dependency
\* is respected: for every edge u -> v between surviving passes the task that
\* holds u comes strictly before the task that holds v.
C1_TaskOrderRespectsDependencies ==
    Succeeded =>
        \A i \in DOMAIN mEdges :
            (mEdges[i].src \in Elems(PO.cullNodes) /\ mEdges[i].dst \in Elems(PO.cullNodes))
                => TaskIndexOf(Tasks, mEdges[i].src) < TaskIndexOf(Tasks, mEdges[i].dst)

\* C2: whenever compile succeeds, serialExecutionOrder is a topological order
\* of the culled graph: every edge between two passes of cullNodes goes from
\* an earlier position to a strictly later one.
C2_SerialOrderTopological ==
    Succeeded =>
        \A i \in DOMAIN mEdges :
            (mEdges[i].src \in Elems(PO.cullNodes) /\ mEdges[i].dst \in Elems(PO.cullNodes))
                => /\ SerialPos(mEdges[i].src) > 0
                   /\ SerialPos(mEdges[i].src) < SerialPos(mEdges[i].dst)

C2_Witness ==
    /\ Succeeded
    /\ Len(mEdges) >= 2
    /\ \A i \in DOMAIN mEdges :
          mEdges[i].src \in Elems(PO.cullNodes) /\ mEdges[i].dst \in Elems(PO.cullNodes)
    /\ \E i, j \in DOMAIN mEdges : mEdges[i].dst = mEdges[j].src

\* C3: with allowParallelization = true no pass id occurs twice in the task
\* order, main and async slots taken together.
C3_TaskExclusivity ==
    (Succeeded /\ Out.options.allowParallelization) => NoDuplicates(TaskSlots)

\* C4: for every graph that has a root, cullNodes is exactly the ids of the
\* neverCull passes united with the ids reachable from the root along
\* out-edges, and holds no id twice.  Stated of the list compile returns and
\* of the list the culling step computes for every graph under construction.
C4_CullCorrectness ==
    /\ Succeeded =>
          /\ Elems(PO.cullNodes) = Survivors
          /\ NoDuplicates(PO.cullNodes)
    /\ (pc = "build" /\ HasRoot) =>
          /\ cullNodes(G).ok
          /\ Elems(cullNodes(G).value) = Survivors
          /\ NoDuplicates(cullNodes(G).value)

C4_Witness ==
    /\ Succeeded
    /\ \E id \in PassIds(G) : id \notin Elems(PO.cullNodes)
    /\ \E id \in Elems(PO.cullNodes) : id \notin NeverCullIds
    /\ \E id \in Elems(PO.cullNodes) :
          id \in NeverCullIds /\ id \notin ReachableFrom({RootId}, PassIds(G))

\* C5: in the aliaser output the live ranges of two distinct original
\* resources placed into the same slot do not overlap.
C5_AliasDisjointness ==
    Succeeded =>
        \A k \in DOMAIN Slots :
            \A r1, r2 \in OriginsOf(Slots[k]) :
                r1 # r2 => ~overlaps(LiveRange(Slots[k], r1), LiveRange(Slots[k], r2))

C5_Witness ==
    /\ Succeeded
    /\ \E k \in DOMAIN Slots : Cardinality(OriginsOf(Slots[k])) >= 2
    /\ \E k \in DOMAIN Slots : Cardinality(Slots[k].usagePoints) >= 3
    /\ Len(Slots) >= 2

\* C6: every Write resource that is not an Image or is flagged dontOptimize
\* has an aliased slot of its own: no usage point of another original
\* resource is in the slot that holds it.
C6_NonOptimizableIsolation ==
    Succeeded =>
        \A w \in WriteResources :
            (w.res.type # "Image" \/ w.res.dontOptimize) =>
                \A k \in SlotsHolding(w) : OriginsOf(Slots[k]) = {w.res.id}

\* C7: after a successful compile every Write resource of a pass that
\* survived culling is, through its producer usage point, in exactly one
\* aliased slot of resourceOptimizer.generatedResources.
C7_Coverage ==
    Succeeded =>
        \A w \in WriteResources :
            w.node \in Elems(PO.cullNodes) => Cardinality(SlotsHolding(w)) = 1

C7_Witness ==
    /\ Succeeded
    /\ Cardinality({w \in WriteResources : w.node \in Elems(PO.cullNodes)}) >= 3
    /\ Len(Slots) = 2

\* C8: every task whose asyncPass is present names a pass flagged async that
\* is an element of parallelizableNodes[task.pass].
C8_AsyncEligibility ==
    Succeeded =>
        \A i \in DOMAIN Tasks :
            Tasks[i].asyncPass # nullptr =>
                /\ getPassById(G, Tasks[i].asyncPass).flags.async
                /\ Tasks[i].pass \in DOMAIN PO.parallelizableNodes
                /\ Tasks[i].asyncPass \in Elems(PO.parallelizableNodes[Tasks[i].pass])

C8_Witness ==
    /\ Succeeded
    /\ \E i \in DOMAIN Tasks :
          /\ Tasks[i].asyncPass # nullptr
          /\ Len(PO.parallelizableNodes[Tasks[i].pass]) >= 2

\* C9: whenever the passes that survive culling contain a directed cycle,
\* compile returns hasFailed = true, failReason = CyclicDependency and no
\* phase outputs (no serial order).
C9_CycleDetection ==
    (pc # "build" /\ HasRoot /\ SurvivorsHaveCycle) =>
        /\ Returned
        /\ Out.hasFailed
        /\ Out.failReason = "CyclicDependency"
        /\ Out.phaseOutputs = <<>>

C9_Witness ==
    /\ Returned
    /\ HasRoot
    /\ SurvivorsHaveCycle
    /\ RootId \notin UNION {OutNeighbours(id) : id \in PassIds(G)}
    /\ Out.failReason = "CyclicDependency"

\* C10: compile on a graph without a pass that is a sentinel and named "Root"
\* returns hasFailed = true and failReason = NoRootNode.
C10_MissingRoot ==
    (pc # "build" /\ ~HasRoot) =>
        /\ Returned
        /\ Out.hasFailed
        /\ Out.failReason = "NoRootNode"

C10_Witness ==
    /\ Returned
    /\ ~HasRoot
    /\ \E i \in DOMAIN mVertices :
          mVertices[i].name = rgRootPassName /\ ~mVertices[i].flags.sentinel
    /\ \E i \in DOMAIN mVertices :
          mVertices[i].name # rgRootPassName /\ mVertices[i].flags.sentinel
    /\ Out.failReason = "NoRootNode"

\* The ids the builder has drawn from IdSequence: one per pass, one per
\* declared resource, one per edge.
IdsDrawnByBuilder ==
    LET f[i \in 0..Len(mVertices)] ==
            IF i = 0 THEN 0 ELSE f[i - 1] + 1 + Len(mVertices[i].dependencies)
    IN f[Len(mVertices)] + Len(mEdges)

\* C11: in every output of compile, hasFailed is true iff failReason is not
\* None iff phaseOutputs is absent; a failure carries the reason of the first
\* phase that failed (NoRootNode from culling, else CyclicDependency from the
\* serial order), no templates, and the later phases were not run (no id was
\* drawn from IdSequence for a shadow graph).
C11_FailureIndicatorsAgree ==
    Returned =>
        /\ Out.hasFailed <=> (Out.failReason # "None")
        /\ Out.hasFailed <=> (Out.phaseOutputs = <<>>)
        /\ ~HasRoot => Out.hasFailed
        /\ Out.hasFailed =>
              /\ Out.failReason = (IF ~HasRoot THEN "NoRootNode" ELSE "CyclicDependency")
              /\ Out.resourceTemplates = <<>>
              /\ mLastId = IdsDrawnByBuilder

C11_Witness ==
    /\ Returned
    /\ Out.hasFailed
    /\ HasRoot
    /\ Out.phaseOutputs = <<>>
    /\ Len(mEdges) >= 2
    /\ mLastId = IdsDrawnByBuilder

\* ---------------------------------------------------------------------
\* Properties of the example graph
\* ---------------------------------------------------------------------
PassNames == [i \in DOMAIN mVertices |-> mVertices[i].name]

\* The edges of the graph by the names of their passes and resources.
EdgeNames ==
    [i \in DOMAIN mEdges |->
        <<getPassById(G, mEdges[i].src).name,
          ResourceName(G, mEdges[i].src, mEdges[i].pSrcRes),
          getPassById(G, mEdges[i].dst).name,
          ResourceName(G, mEdges[i].dst, mEdges[i].pDstRes)>>]

\* The edges createExampleGraph inserts between the passes named in names.
ExampleEdgesAmong(names) ==
    LET sts == SelectSeq(createExampleGraph, LAMBDA st :
                   st.op = "insertEdge" /\ st.src \in names /\ st.dst \in names)
    IN [i \in DOMAIN sts |-> <<sts[i].src, sts[i].srcRes, sts[i].dst, sts[i].dstRes>>]

\* The graph is the whole example graph of createExampleGraph.
FullExample ==
    /\ PassNames = <<rgRootPassName, "G-Buffer Pass", "Lighting Pass",
                     "Ambient Occlusion Pass", "Composition Pass", rgPresentPass>>
    /\ EdgeNames = ExampleEdgesAmong(Elems(PassNames))

\* The graph is the linear example: the example graph without the Ambient
\* Occlusion pass and its edges.
LinearExample ==
    /\ PassNames = <<rgRootPassName, "G-Buffer Pass", "Lighting Pass",
                     "Composition Pass", rgPresentPass>>
    /\ EdgeNames = ExampleEdgesAmong(Elems(PassNames))

SerialMode == ~Out.options.allowParallelization

\* The task order by pass names; "" stands for an empty async slot.
TaskNames ==
    [i \in DOMAIN Tasks |->
        <<getPassById(G, Tasks[i].pass).name,
          IF Tasks[i].asyncPass = nullptr THEN ""
          ELSE getPassById(G, Tasks[i].asyncPass).name>>]

\* The id of the resource of that name that the pass of that name declares.
ResourceIdNamed(passName, resourceName) ==
    getResource(getPassById(G, PassNamed(G, passName)), resourceName, nullptr)

\* C12: with allowParallelization = false the task order has one task per
\* element of the serial execution order, in the same order, with the i-th
\* pass of the serial order as main pass and no async pass; for the linear
\* example the compile succeeds and the tasks are Root, G-Buffer, Lighting,
\* Composition, Present.
C12_SerialMode ==
    (Returned /\ SerialMode) =>
        /\ Succeeded =>
              Tasks = [i \in DOMAIN PO.serialExecutionOrder |->
                          RGTask(PO.serialExecutionOrder[i], nullptr)]
        /\ LinearExample =>
              /\ Succeeded
              /\ TaskNames = << <<rgRootPassName, "">>, <<"G-Buffer Pass", "">>,
                                <<"Lighting Pass", "">>, <<"Composition Pass", "">>,
                                <<rgPresentPass, "">> >>

C12_Witness ==
    /\ Succeeded
    /\ SerialMode
    /\ LinearExample
    /\ Len(Tasks) = Len(PO.serialExecutionOrder)

\* C13: compiling the whole example graph with allowParallelization = true
\* succeeds with the task order Root, G-Buffer, Lighting with the async
\* companion Ambient Occlusion, Composition, Present; Ambient Occlusion is
\* the main pass of no task.
C13_AsyncPairingScenario ==
    (Returned /\ ~SerialMode /\ FullExample) =>
        /\ Succeeded
        /\ TaskNames = << <<rgRootPassName, "">>, <<"G-Buffer Pass", "">>,
                          <<"Lighting Pass", "Ambient Occlusion Pass">>,
                          <<"Composition Pass", "">>, <<rgPresentPass, "">> >>
        /\ \A i \in DOMAIN Tasks :
              Tasks[i].pass # PassNamed(G, "Ambient Occlusion Pass")

C13_Witness ==
    /\ Succeeded
    /\ ~SerialMode
    /\ FullExample
    /\ \E i \in DOMAIN Tasks :
          Tasks[i].asyncPass = PassNamed(G, "Ambient Occlusion Pass")

\* C14: for the linear example in serial mode the aliaser reports a
\* reduction of at least one (postCount < preCount), and positionImage of
\* G-Buffer and combined of Composition are in the same slot.
C14_AliasingScenario ==
    (Returned /\ SerialMode /\ LinearExample) =>
        /\ Succeeded
        /\ PO.resourceOptimizer.reduction >= 1
        /\ PO.resourceOptimizer.postCount < PO.resourceOptimizer.preCount
        /\ \E k \in DOMAIN Slots :
              {ResourceIdNamed("G-Buffer Pass", "positionImage"),
               ResourceIdNamed("Composition Pass", "combined")}
                  \subseteq OriginsOf(Slots[k])

C14_Witness ==
    /\ Succeeded
    /\ SerialMode
    /\ LinearExample
    /\ PO.resourceOptimizer.reduction >= 1
    /\ \E k \in DOMAIN Slots : Cardinality(OriginsOf(Slots[k])) >= 2

\* C15: compile leaves its input as it was: when it returns, with a plan or
\* with a failure, the graph has the same passes in the same order, each
\* with the same incoming and outgoing adjacency lists, and the same edges.
C15_CompileLeavesInput ==
    [][(pc = "build" /\ pc' = "returned") =>
          (mVertices' = mVertices /\ mEdges' = mEdges)]_vars

\* compile succeeded after inserting closure edges into its shadow graph:
\* it drew more ids than the copied edges and the resource infos need.
C15_Witness ==
    /\ Succeeded
    /\ mLastId > IdsDrawnByBuilder + Len(mEdges) + PO.resourceOptimizer.preCount

\* ---------------------------------------------------------------------
\* The graph operations (specification SpecGraph)
\* ---------------------------------------------------------------------
Count(s, x) == Cardinality({i \in DOMAIN s : s[i] = x})

NamesOf(g, id) ==
    {getPassById(g, id).dependencies[i].name :
        i \in DOMAIN getPassById(g, id).dependencies}

EdgesBetween(g, a, b) ==
    {i \in DOMAIN g.mEdges : g.mEdges[i].src = a /\ g.mEdges[i].dst = b}

\* The edges of g from resource srcRes of src to resource dstRes of dst.
MatchingEdges(g, src, srcRes, dst, dstRes) ==
    {i \in EdgesBetween(g, src, dst) :
        /\ ResourceName(g, src, g.mEdges[i].pSrcRes) = srcRes
        /\ ResourceName(g, dst, g.mEdges[i].pDstRes) = dstRes}

AdjacencyEntries(g) ==
    UNION {Elems(g.mVertices[i].mOutgoingEdges) \cup Elems(g.mVertices[i].mIncomingEdges) :
              i \in DOMAIN g.mVertices}

\* C16: adjacency agrees with the edge set after any sequence of addPass,
\* insertEdge, deleteEdge and deletePass: for every two passes a, b of the
\* graph, b occurs in a's outgoing list as often as there are edges a -> b
\* and as often as a occurs in b's incoming list, and no adjacency list
\* refers to a pass that is no longer in the graph.
C16_AdjacencyAgreesWithEdges ==
    /\ \A a \in PassIds(G) : \A b \in PassIds(G) :
          /\ Count(getPassById(G, a).mOutgoingEdges, b)
                = Cardinality(EdgesBetween(G, a, b))
          /\ Count(getPassById(G, b).mIncomingEdges, a)
                = Cardinality(EdgesBetween(G, a, b))
    /\ AdjacencyEntries(G) \subseteq PassIds(G)

\* C17: insertEdge returns false when src and dst have the same id, when
\* src declares no resource named srcRes or when dst declares none named
\* dstRes; in every other case, duplicates included, it returns true,
\* appends exactly one edge with an id no existing edge has, and adds one
\* entry dst to src's outgoing list and one entry src to dst's incoming list.
C17_InsertEdgeResult ==
    (pc = "build" /\ last.op = "insertEdge") =>
        LET b == last.before
            si == PassIndex(b, last.src)
            di == PassIndex(b, last.dst)
            refused == \/ last.src = last.dst
                       \/ last.srcRes \notin NamesOf(b, last.src)
                       \/ last.dstRes \notin NamesOf(b, last.dst)
        IN /\ last.ret <=> ~refused
           /\ ~refused =>
                 /\ Len(mEdges) = Len(b.mEdges) + 1
                 /\ SubSeq(mEdges, 1, Len(b.mEdges)) = b.mEdges
                 /\ Len(mEdges) \in MatchingEdges(G, last.src, last.srcRes,
                                                  last.dst, last.dstRes)
                 /\ \A i \in DOMAIN b.mEdges : b.mEdges[i].id # mEdges[Len(mEdges)].id
                 /\ mVertices = [b.mVertices EXCEPT
                                    ![si].mOutgoingEdges = Append(@, last.dst),
                                    ![di].mIncomingEdges = Append(@, last.src)]

\* C18: deleteEdge on a graph that holds at least one edge from
\* (src, srcRes) to (dst, dstRes) returns true and removes exactly one such
\* edge, one entry dst of src's outgoing list and one entry src of dst's
\* incoming list, and leaves every other edge in place, whatever the
\* resource names are.
C18_DeleteEdgeResult ==
    (pc = "build" /\ last.op = "deleteEdge") =>
        LET b == last.before
            si == PassIndex(b, last.src)
            di == PassIndex(b, last.dst)
            matching == MatchingEdges(b, last.src, last.srcRes, last.dst, last.dstRes)
        IN matching # {} =>
              /\ last.ret
              /\ \E i \in matching : mEdges = RemoveAt(b.mEdges, i)
              /\ \E j \in DOMAIN b.mVertices[si].mOutgoingEdges :
                   \E k \in DOMAIN b.mVertices[di].mIncomingEdges :
                      /\ b.mVertices[si].mOutgoingEdges[j] = last.dst
                      /\ b.mVertices[di].mIncomingEdges[k] = last.src
                      /\ mVertices = [b.mVertices EXCEPT
                                         ![si].mOutgoingEdges = RemoveAt(@, j),
                                         ![di].mIncomingEdges = RemoveAt(@, k)]

\* C19: whenever insertEdge, deleteEdge or deletePass returns false, the
\* graph is exactly as before the call: same pass list, same edge list,
\* same incoming and outgoing adjacency list of every pass.
C19_FailureLeavesGraph ==
    (last.op \in {"insertEdge", "deleteEdge", "deletePass"} /\ ~last.ret) =>
        G = last.before

\* insertEdge between two different passes of a graph that has edges has
\* returned false.
C19_Witness ==
    /\ last.op = "insertEdge"
    /\ ~last.ret
    /\ last.src # last.dst
    /\ mEdges # <<>>

\* C20: createCopy yields a graph with the same pass ids, names, flags and
\* resource ids in the same order, and with one edge per source edge that
\* has the same endpoints, the same resources and the same edge id.
C20_CopyEqualsSource ==
    (pc = "build" /\ last.op = "createCopy") =>
        LET b == last.before
            c == last.copy
        IN /\ Len(c.mVertices) = Len(b.mVertices)
           /\ \A i \in DOMAIN b.mVertices :
                 /\ c.mVertices[i].mId = b.mVertices[i].mId
                 /\ c.mVertices[i].name = b.mVertices[i].name
                 /\ c.mVertices[i].flags = b.mVertices[i].flags
                 /\ c.mVertices[i].dependencies = b.mVertices[i].dependencies
           /\ Len(c.mEdges) = Len(b.mEdges)
           /\ \A i \in DOMAIN b.mEdges :
                 Count(c.mEdges, b.mEdges[i]) = Count(b.mEdges, b.mEdges[i])

\* ---------------------------------------------------------------------
\* The id source (specification SpecIdSequence)
\* ---------------------------------------------------------------------
\* The calls of next() that have returned: <<thread, index of the call>>.
ReturnedCalls(field) ==
    {c \in IdThreads \X (1..MaxNextCalls) : c[2] <= Len(threads[c[1]][field])}

DistinctAndIncreasing(field) ==
    /\ \A c \in ReturnedCalls(field) : \A d \in ReturnedCalls(field) :
          c # d => threads[c[1]][field][c[2]] # threads[d[1]][field][d[2]]
    /\ \A c \in ReturnedCalls(field) : \A d \in ReturnedCalls(field) :
          (c[1] = d[1] /\ c[2] < d[2])
             => threads[c[1]][field][c[2]] < threads[d[1]][field][d[2]]

\* The revision with std::atomic behaves as C21 says.
AtomicIdsDistinctAndIncreasing == DistinctAndIncreasing("atomicReturned")

\* C21: under any interleaving of calls to IdSequence::next() from two or
\* more threads, every call returns a value no other call returns, and the
\* values returned to one thread are strictly increasing.
C21_IdsDistinctAndIncreasing == DistinctAndIncreasing("returned")

\* C22: getSerialExecutionOrder sorts the sub-graph induced by the
\* surviving passes: when that sub-graph is acyclic (edges from culled
\* passes do not count) compile does not fail and the serial order holds
\* every surviving pass exactly once.
C22_InducedSubgraphSorted ==
    (Returned /\ HasRoot /\ ~SurvivorsHaveCycle) =>
        /\ Succeeded
        /\ Out.failReason # "CyclicDependency"
        /\ Elems(PO.serialExecutionOrder) = Survivors
        /\ NoDuplicates(PO.serialExecutionOrder)

\* The usage point a slot's producer made for the slot's own resource.
IsProducerPoint(slot, p) ==
    p.userNodeId = slot.originalNode /\ p.userResId = slot.originalResource

LinksOf(k) == Out.resourceTemplates[k].links

\* C23: for each aliased slot getResourceTemplates emits exactly one link
\* per usage point other than the producer's, with srcPass and srcResource
\* the slot's origin and dstPass, dstResource and access those of the usage
\* point, and no link for the producer's own usage point.
C23_LinksForConsumersOnly ==
    Succeeded =>
        /\ Len(Out.resourceTemplates) = Len(Slots)
        /\ \A k \in DOMAIN Slots :
              LET consumers == {p \in Slots[k].usagePoints : ~IsProducerPoint(Slots[k], p)}
              IN /\ Len(LinksOf(k)) = Cardinality(consumers)
                 /\ \A p \in consumers :
                       Cardinality({n \in DOMAIN LinksOf(k) :
                           /\ LinksOf(k)[n].srcPass = Slots[k].originalNode
                           /\ LinksOf(k)[n].srcResource = Slots[k].originalResource
                           /\ LinksOf(k)[n].dstPass = p.userNodeId
                           /\ LinksOf(k)[n].dstResource = p.userResId
                           /\ LinksOf(k)[n].access = p.access}) = 1
                 /\ \A n \in DOMAIN LinksOf(k) :
                       ~(/\ LinksOf(k)[n].dstPass = Slots[k].originalNode
                         /\ LinksOf(k)[n].dstResource = Slots[k].originalResource)

\* C24: in the parallelizableNodes map of every successful output, with
\* allowParallelization true as well as false, no key maps to an empty list
\* and no key is a sentinel pass.
C24_NoEmptyOrSentinelKeys ==
    Succeeded =>
        \A key \in DOMAIN PO.parallelizableNodes :
            /\ PO.parallelizableNodes[key] # <<>>
            /\ ~getPassById(G, key).flags.sentinel

\* The passes a directed path of one or more edges of mEdges leads to from
\* a pass of S.
RECURSIVE Descendants(_)
Descendants(S) ==
    LET T == S \cup {mEdges[i].dst : i \in {j \in DOMAIN mEdges : mEdges[j].src \in S}}
    IN IF T = S THEN S ELSE Descendants(T)

HasPathInInput(p, q) ==
    q \in Descendants({mEdges[i].dst : i \in {j \in DOMAIN mEdges : mEdges[j].src = p}})

IsParallelizable(p, q) ==
    /\ p \in DOMAIN PO.parallelizableNodes
    /\ q \in Elems(PO.parallelizableNodes[p])

\* C25: for all passes p and q of a successfully compiled graph, q is in
\* parallelizableNodes[p] iff p and q are distinct, neither is a sentinel,
\* both are in serialExecutionOrder with p before q, and the input graph has
\* no directed path from p to q and none from q to p.
C25_ParallelismAnalysis ==
    Succeeded =>
        \A p \in PassIds(G) : \A q \in PassIds(G) :
            IsParallelizable(p, q) <=>
                /\ p # q
                /\ ~getPassById(G, p).flags.sentinel
                /\ ~getPassById(G, q).flags.sentinel
                /\ SerialPos(p) # 0
                /\ SerialPos(q) # 0
                /\ SerialPos(p) < SerialPos(q)
                /\ ~HasPathInInput(p, q)
                /\ ~HasPathInInput(q, p)

\* A successful compile of a graph with two passes, not sentinels, joined
\* by a path through a third pass and by no edge, and with a pair of passes
\* found parallelizable.
C25_Witness ==
    /\ Succeeded
    /\ \E p \in PassIds(G) : \E q \in PassIds(G) :
          /\ ~getPassById(G, p).flags.sentinel
          /\ ~getPassById(G, q).flags.sentinel
          /\ SerialPos(p) # 0
          /\ SerialPos(q) # 0
          /\ HasPathInInput(p, q)
          /\ ~containsEdge(G, p, q)
    /\ \E p \in PassIds(G) : \E q \in PassIds(G) : IsParallelizable(p, q)

\* C26: after the multi-edge removal step of getParallelizableTasks and
\* before the propagation loop the shadow graph holds at most one edge for
\* every ordered pair (source pass, destination pass), also when the input
\* graph has several edges between the same two passes.
C26_ShadowHasNoMultiEdges ==
    Succeeded =>
        \A a \in PassIds(G) : \A b \in PassIds(G) :
            Cardinality(EdgesBetween(DeduplicatedShadow(G, mLastId, nullptr).shadow,
                                     a, b)) <= 1

\* C27: BFS::hasPath(src, dst) terminates on every finite graph, graphs with
\* directed cycles and with parallel edges included, and returns true iff
\* src = dst or a directed walk from src to dst along out-edges exists.
C27_HasPathIsReachability ==
    \A src \in PassIds(G) : \A dst \in PassIds(G) :
        hasPath(G, src, dst) <=> (src = dst \/ HasPathInInput(src, dst))

\* A graph with a directed cycle through a pass src: hasPath went round
\* the cycle and returned false for a pass dst that no walk from src reaches.
C27_Witness ==
    \E src \in PassIds(G) : \E dst \in PassIds(G) :
        /\ HasPathInInput(src, src)
        /\ src # dst
        /\ ~hasPath(G, src, dst)

\* The graph has an edge from resource srcResource of pass srcPass to
\* resource dstResource of pass dstPass.
LinkIsEdge(link) ==
    \E i \in DOMAIN mEdges :
        /\ mEdges[i].src = link.srcPass
        /\ mEdges[i].pSrcRes = link.srcResource
        /\ mEdges[i].dst = link.dstPass
        /\ mEdges[i].pDstRes = link.dstResource

\* The usage point the n-th link of template k was made from.
PointOfLink(k, n) == PointsInOrder(Slots[k].usagePoints)[n]

\* C28: every ResourceLink whose dstPass differs from its srcPass
\* corresponds to an edge of the input graph from srcResource of srcPass to
\* dstResource of dstPass, also in slots into which several original
\* resources were aliased.
C28_LinksAreEdges ==
    Succeeded =>
        \A k \in DOMAIN Out.resourceTemplates : \A n \in DOMAIN LinksOf(k) :
            LinksOf(k)[n].dstPass # LinksOf(k)[n].srcPass => LinkIsEdge(LinksOf(k)[n])

\* C28 (amended): every ResourceLink whose dstPass differs from its srcPass
\* and whose usage point was made for the slot's own original resource
\* corresponds to an edge of the input graph from srcResource of srcPass to
\* dstResource of dstPass.
C28_OwnLinksAreEdges ==
    Succeeded =>
        \A k \in DOMAIN Out.resourceTemplates : \A n \in DOMAIN LinksOf(k) :
            (/\ LinksOf(k)[n].dstPass # LinksOf(k)[n].srcPass
             /\ PointOfLink(k, n).origin = Slots[k].originalResource)
                => LinkIsEdge(LinksOf(k)[n])

\* A slot that holds two original resources has a link to a consumer of its
\* own resource and a link made for the resource aliased into it.
C28_Witness ==
    /\ Succeeded
    /\ \E k \in DOMAIN Out.resourceTemplates :
          /\ \E n \in DOMAIN LinksOf(k) :
                /\ LinksOf(k)[n].dstPass # LinksOf(k)[n].srcPass
                /\ PointOfLink(k, n).origin = Slots[k].originalResource
          /\ \E n \in DOMAIN LinksOf(k) :
                PointOfLink(k, n).origin # Slots[k].originalResource

\* The edges that leave a Write resource of a scheduled pass and enter a
\* scheduled pass.
ScheduledWriteEdges ==
    {i \in DOMAIN mEdges :
        /\ mEdges[i].src \in Elems(TaskSlots)
        /\ mEdges[i].dst \in Elems(TaskSlots)
        /\ ResourceById(getPassById(G, mEdges[i].src), mEdges[i].pSrcRes).access = "Write"}

PointIndexValid(p) ==
    /\ p.point \in 0..(Len(Tasks) - 1)
    /\ \/ Tasks[p.point + 1].pass = p.userNodeId
       \/ Tasks[p.point + 1].asyncPass = p.userNodeId

C30_TimelineIndicesValid ==
    Succeeded =>
        \A k \in DOMAIN Slots : \A p \in Slots[k].usagePoints :
            PointIndexValid(p)

====
